---- MODULE Spec2Model ----
(***************************************************************************)
(* Quiz lifecycle and grading engine of the university CMS backend:        *)
(* createQuiz, getQuizzesBySubject, getStudentQuizzes, startQuiz,          *)
(* submitQuiz and getQuizResults of the quiz controller                    *)
(* (src/unnamed/part_002) over the Quiz collection (src/models/Quiz.js),   *)
(* behind the routes of src/routes/quizzes.js.                             *)
(*                                                                         *)
(* Every handler is an async function: the code between two awaits runs    *)
(* without interruption, and other requests run while a handler waits for  *)
(* the store.  startQuiz and submitQuiz are two segments each:             *)
(*   startQuiz / submitQuiz   the store answers Quiz.findById and the      *)
(*                            synchronous code up to quiz.save() (or up to *)
(*                            an early response) runs on that snapshot;    *)
(*   ...Save                  the store applies quiz.save() and the        *)
(*                            response is sent.                            *)
(* The handler's code between the two works on its own copy of the         *)
(* document, so the read is placed at the instant that code runs; every    *)
(* write of another request that the snapshot misses then falls between    *)
(* the first segment and the save.  createQuiz only reads the Subject      *)
(* collection, which no operation here writes, and is one action; so are   *)
(* the three handlers that only read.  Ids are well-formed ObjectIds.      *)
(* A response is kept in lastResp for the one state after it is sent.      *)
(*                                                                         *)
(* quiz.save() is Mongoose's: it sends the changes made to the document,   *)
(* not the document.  An attempts.push(..) is sent as a $push that also    *)
(* increments the version key __v and is not conditional on it; an         *)
(* assignment below attempts.<i> is sent as a $set on that position that   *)
(* is conditional on __v being the one read and increments it, and fails   *)
(* with a VersionError otherwise.                                          *)
(*                                                                         *)
(* Dates are instants of a discrete clock.  Marks are integers, and a      *)
(* percentage is an exact fraction <<numerator, denominator>>; <<0, 0>>    *)
(* is NaN.  The rounding of IEEE doubles is not modelled.                  *)
(*                                                                         *)
(* The last part models the submission and grading of assignments          *)
(* (src/controllers/assignmentController.js, submissionController.js)      *)
(* over the Assignment and Submission collections, with the same           *)
(* variables.                                                              *)
(***************************************************************************)
EXTENDS Integers, Sequences, FiniteSets, TLC

\* ---------------------------------------------------------------- bounds
MaxTime == 2          \* the clock runs over 0..MaxTime
MaxAttempts == 2      \* attempts a quiz may hold, those being saved included
MaxAnswers == 1       \* longest answers array, sequential lifecycle
MaxScoreAnswers == 2  \* longest answers array, scoring specification
MaxQuizzes == 2       \* quizzes in the store, listing specification

\* ------------------------------------------------------------ principals
Students == {"s1", "s2"}
Teachers == {"t1", "t2"}
Admins == {"a1"}
Slots == {"r1", "r2"}          \* requests in flight at the same time

\* req.user.role
Role(user) ==
  IF user \in Students THEN "student"
  ELSE IF user \in Teachers THEN "teacher"
  ELSE "admin"

\* User collection: name and enrollmentNumber, and the department and
\* semester of a student (a student may have no department)
UserName ==
  [u \in Students \cup Teachers |->
     CASE u = "s1" -> "Ana" [] u = "s2" -> "Ben" [] u = "t1" -> "Cy"
       [] OTHER -> "Di"]
NoDepartment == "null"
StudentDepartment == [u \in Students |-> IF u = "s1" THEN "d1" ELSE NoDepartment]
StudentSemester == [u \in Students |-> 1]
EnrollmentNumber == [u \in Students |-> IF u = "s1" THEN "E1" ELSE "E2"]

\* Subject collection: subject id -> assigned teacher ("subX" is unknown);
\* a subject may be stored without a teacher (teacher: null)
NoTeacher == "null"
SubjectTeacher ==
  [sub \in {"sub0", "sub1", "sub2", "sub3"} |->
     CASE sub = "sub1" -> "t1"
       [] sub = "sub2" -> "t2"
       [] sub = "sub3" -> "t2"
       [] OTHER -> NoTeacher]
SubjectDepartment ==
  [sub \in DOMAIN SubjectTeacher |-> IF sub = "sub3" THEN "d2" ELSE "d1"]
SubjectSemester ==
  [sub \in DOMAIN SubjectTeacher |-> IF sub = "sub2" THEN 2 ELSE 1]
SubjectName == [sub \in DOMAIN SubjectTeacher |-> "Algebra"]
SubjectCode == [sub \in DOMAIN SubjectTeacher |-> sub]
SubjectIds == {"sub1", "subX"}
CreateSubjectIds == {"sub0", "sub1", "sub2", "subX"}

\* the ids requests name; createQuiz gives the ids in order
QuizIds == {1}

\* optional value: undefined or a value
Undefined == <<>>
Some(v) == <<v>>

\* ------------------------------------------------------- request bodies
\* a JSON value where the code expects a number: a number, or a string of
\* decimal digits ("53" is the digits 5, 3)
Num(n) == [type |-> "number", n |-> n]
Str(digits) == [type |-> "string", digits |-> digits]

\* a question as a teacher posts it
Question(options, correct, marks) ==
  [questionText |-> "text", options |-> options,
   correctAnswer |-> correct, marks |-> marks]

QIn(correct, marks) == Question(<<"a", "b">>, correct, Num(marks))

QuestionInputs ==
  { <<>>,
    << QIn(0, 2) >>,
    << QIn(1, 5), QIn(0, 3) >> }

\* createQuiz on its own: also the bodies the validation rules exclude
\* and marks sent as strings
CreateQuestionInputs ==
  QuestionInputs \cup
  { << QIn(0, 0) >>,
    << QIn(0 - 1, 2) >>,
    << QIn(2, 2) >>,
    << Question(<<>>, 0, Num(2)) >>,
    << Question(<<"a", "b">>, 0, Str(<<2>>)) >>,
    << Question(<<"a", "b">>, 1, Str(<<5>>)), QIn(0, 3) >> }

CreateTitles == {"", "Quiz"}
CreateDurations == {0, 1}

\* a date is an instant of the clock; InvalidDate stands for a value that
\* is not a date
InvalidDate == 0 - 1
CreateDates == {InvalidDate, 1}

Durations == {1}
Dates == {1}                   \* startDate, endDate: concurrent lifecycle
WideDates == 0 .. MaxTime      \* startDate, endDate: sequential lifecycle

RECURSIVE SeqsUpTo(_, _)
SeqsUpTo(S, n) ==
  IF n = 0 THEN { <<>> }
  ELSE LET shorter == SeqsUpTo(S, n - 1)
       IN shorter \cup { Append(s, e) : s \in { t \in shorter : Len(t) = n - 1 }, e \in S }

\* req.body.answers: an array, or absent from the body;
\* questionIndex is 0-based
Bodies(S) == { Some(a) : a \in S } \cup { Undefined }

Entry(questionIndex, selectedOption) ==
  [questionIndex |-> questionIndex, selectedOption |-> selectedOption]

\* concurrent lifecycle: a body without answers, or with one answer
SubmitBodies == { Undefined, Some(<< Entry(0, 1) >>) }

\* sequential lifecycle
AnswerEntries == [questionIndex : {0}, selectedOption : {1}]
AnswerSeqs == SeqsUpTo(AnswerEntries, MaxAnswers)
AnswerBodies == Bodies(AnswerSeqs)

\* scoring
ScoreAnswerEntries == [questionIndex : {0, 1, 2}, selectedOption : {0, 1}]
ScoreAnswerSeqs == SeqsUpTo(ScoreAnswerEntries, MaxScoreAnswers)
ScoreAnswerBodies == Bodies(ScoreAnswerSeqs)

VARIABLES
  db,        \* Quiz collection: sequence of quiz documents, _id = position
             \* (assignments part: the Assignment and Submission collections)
  reqs,      \* per slot: the request in flight and its position
  clock,     \* new Date()
  lastResp   \* the response just sent (NoResp when the step sent none)

vars == <<db, reqs, clock, lastResp>>

Idle == [pc |-> "idle"]
NoResp == [op |-> "none"]

\* ------------------------------------------------------------ createQuiz
\* String(n) of a number n >= 0, as digits
RECURSIVE Digits(_)
Digits(n) == IF n < 10 THEN <<n>> ELSE Append(Digits(n \div 10), n % 10)

\* Number(s) of a string of digits
RECURSIVE DigitsValue(_)
DigitsValue(digits) ==
  IF digits = <<>> THEN 0
  ELSE 10 * DigitsValue(SubSeq(digits, 1, Len(digits) - 1)) + digits[Len(digits)]

ToDigits(v) == IF v.type = "string" THEN v.digits ELSE Digits(v.n)

\* a + b of JavaScript: the sum of two numbers; the concatenation of the
\* two as strings when one of them is a string
JsAdd(a, b) ==
  IF a.type = "number" /\ b.type = "number"
  THEN Num(a.n + b.n)
  ELSE Str(ToDigits(a) \o ToDigits(b))

\* the cast of a Number path: a number as it is, a string by Number(s)
CastNumber(v) == IF v.type = "string" THEN DigitsValue(v.digits) ELSE v.n

\* variant: the marks of the last question, nothing accumulated
SumMarksLast(questions) ==
  IF questions = <<>> THEN Num(0) ELSE questions[Len(questions)].marks

\* questions.reduce((sum, q) => sum + q.marks, 0)
RECURSIVE SumMarks(_)
SumMarks(questions) ==
  IF questions = <<>> THEN Num(0)
  ELSE JsAdd(SumMarks(SubSeq(questions, 1, Len(questions) - 1)),
             questions[Len(questions)].marks)

\* the questions subdocuments Quiz.create stores: each gets an _id, and
\* marks is cast to a number
StoredQuestions(questions) ==
  [i \in 1 .. Len(questions) |->
     [_id |-> i,
      questionText |-> questions[i].questionText,
      options |-> questions[i].options,
      correctAnswer |-> questions[i].correctAnswer,
      marks |-> CastNumber(questions[i].marks)]]

NewQuiz(teacher, title, subjectId, questions, duration, startDate, endDate, now) ==
  [title |-> title,
   subject |-> subjectId,
   teacher |-> teacher,
   questions |-> StoredQuestions(questions),
   totalMarks |-> CastNumber(SumMarks(questions)),
   duration |-> duration,
   startDate |-> startDate,
   endDate |-> endDate,
   attempts |-> <<>>,
   isActive |-> TRUE,
   createdAt |-> now,
   v |-> 0]

\* questionSchema: correctAnswer has min 0 and marks has min 1
ValidQuestion(q) == q.correctAnswer >= 0 /\ CastNumber(q.marks) >= 1

\* the validation Quiz.create runs before it stores: title is required,
\* every question is valid, duration has min 1, startDate and endDate
\* are dates
ValidQuiz(title, questions, duration, startDate, endDate) ==
  /\ title # ""
  /\ \A i \in 1 .. Len(questions) : ValidQuestion(questions[i])
  /\ duration >= 1
  /\ startDate # InvalidDate
  /\ endDate # InvalidDate

Respond(op, status, message, body, req) ==
  [op |-> op, status |-> status, message |-> message, body |-> body, req |-> req]

\* the validators of the route run before createQuiz and record in the
\* request the fields of the body that break their rule
quizValidation(title, subjectId, questions, duration, startDate, endDate) ==
  (IF title = "" THEN {"title"} ELSE {})
  \cup (IF subjectId = "" THEN {"subjectId"} ELSE {})
  \cup (IF Len(questions) < 1 THEN {"questions"} ELSE {})
  \cup (IF duration < 1 THEN {"duration"} ELSE {})
  \cup (IF startDate = InvalidDate THEN {"startDate"} ELSE {})
  \cup (IF endDate = InvalidDate THEN {"endDate"} ELSE {})

\* the request createQuiz is given: req.user, the subject of the body and
\* what the validators have recorded
CreateReq(teacher, subjectId, errors) ==
  [pc |-> "create", op |-> "create", user |-> teacher, subject |-> subjectId,
   errors |-> errors]

\* subject.teacher.toString() !== req.user._id.toString()
NotSubjectTeacher(subjectId, teacher) == SubjectTeacher[subjectId] # teacher

createQuiz(teacher, title, subjectId, questions, duration, startDate, endDate) ==
  LET req == CreateReq(teacher, subjectId,
                       quizValidation(title, subjectId, questions, duration,
                                      startDate, endDate))
  IN
  /\ lastResp = NoResp
  /\ UNCHANGED <<reqs, clock>>
  /\ IF subjectId \notin DOMAIN SubjectTeacher
     THEN /\ lastResp' = Respond("create", 404, "Subject not found", <<>>, req)
          /\ UNCHANGED db
     ELSE IF SubjectTeacher[subjectId] = NoTeacher
     THEN \* null.toString() throws a TypeError, caught below
          /\ lastResp' = Respond("create", 500, "Server error", <<>>, req)
          /\ UNCHANGED db
     ELSE IF NotSubjectTeacher(subjectId, teacher)
     THEN /\ lastResp' = Respond("create", 403,
                                 "Not authorized to create quizzes for this subject",
                                 <<>>, req)
          /\ UNCHANGED db
     ELSE IF ~ValidQuiz(title, questions, duration, startDate, endDate)
     THEN \* Quiz.create rejects with a ValidationError, caught below
          /\ lastResp' = Respond("create", 500, "Server error", <<>>, req)
          /\ UNCHANGED db
     ELSE /\ Len(db) + 1 \in QuizIds
          /\ LET quiz == NewQuiz(teacher, title, subjectId, questions, duration,
                                 startDate, endDate, clock)
             IN /\ db' = Append(db, quiz)
                /\ lastResp' = Respond("create", 201, "", <<quiz>>, req)

\* -------------------------------------------------------------- helpers
\* Quiz.findById(id): the document, or null
FindById(id) == IF id \in 1 .. Len(db) THEN <<db[id]>> ELSE <<>>

\* array.find(pred), given the positions where pred holds: the position
\* of the first match, 0 (undefined) when there is none
FirstIndex(matches) ==
  IF matches = {} THEN 0
  ELSE CHOOSE i \in matches : \A j \in matches : i <= j

\* a request takes the first slot that is free
FreeSlot(r) ==
  /\ reqs[r].pc = "idle"
  /\ r = "r2" => reqs["r1"].pc # "idle"

Finish(r, resp) ==
  /\ reqs' = [reqs EXCEPT ![r] = Idle]
  /\ lastResp' = resp

\* ------------------------------------------------------------- startQuiz
\* variant: both comparisons exclude the boundary instant
NotAvailableStrict(now, quiz) == now <= quiz.startDate \/ now >= quiz.endDate

\* variant: the end of the window is not tested
NotAvailableBeforeOnly(now, quiz) == now < quiz.startDate

\* now < quiz.startDate || now > quiz.endDate
NotAvailable(now, quiz) == now < quiz.startDate \/ now > quiz.endDate

\* variant: only an attempt that is still in progress blocks a new start
ExistingAttemptInProgress(quiz, student) ==
  FirstIndex({ i \in 1 .. Len(quiz.attempts) :
                 /\ quiz.attempts[i].student = student
                 /\ quiz.attempts[i].status = "in-progress" })

\* quiz.attempts.find(a => a.student.toString() === req.user._id.toString())
ExistingAttempt(quiz, student) ==
  FirstIndex({ i \in 1 .. Len(quiz.attempts) :
                 quiz.attempts[i].student = student })

\* the subdocument quiz.attempts.push({student, startedAt, status}) adds
NewAttempt(student, now) ==
  [student |-> student,
   answers |-> <<>>,
   score |-> Undefined,
   percentage |-> Undefined,
   startedAt |-> now,
   submittedAt |-> Undefined,
   status |-> "in-progress"]

\* the startQuiz requests on quiz id that wait for their save
StartsInFlight(id) ==
  { r \in Slots : /\ reqs[r].pc = "saving"
                  /\ reqs[r].req.op = "start"
                  /\ reqs[r].req.id = id }

\* what a request was given and what it read: the quiz id, the principal,
\* the document findById gave and the value of new Date()
StartReq(id, student, doc, now) ==
  [op |-> "start", id |-> id, user |-> student, doc |-> doc, now |-> now]

\* variant: the existing attempt is looked for before the window is tested
startQuizAttemptFirst(r, id, student) ==
  LET doc == FindById(id) IN
  /\ lastResp = NoResp
  /\ FreeSlot(r)
  /\ UNCHANGED <<db, clock>>
  /\ IF doc = <<>>
     THEN Finish(r, Respond("start", 404, "Quiz not found", <<>>,
                            StartReq(id, student, doc, 0)))
     ELSE LET quiz == doc[1]
              now == clock
              req == StartReq(id, student, doc, now)
          IN IF ExistingAttempt(quiz, student) # 0
             THEN Finish(r, Respond("start", 400,
                                    "You have already attempted this quiz", <<>>, req))
             ELSE IF NotAvailable(now, quiz)
             THEN Finish(r, Respond("start", 400,
                                    "Quiz is not available at this time", <<>>, req))
             ELSE /\ Len(quiz.attempts) + Cardinality(StartsInFlight(id)) < MaxAttempts
                  /\ reqs' = [reqs EXCEPT ![r] =
                                [pc |-> "saving", req |-> req, index |-> 0,
                                 local |-> [quiz EXCEPT !.attempts =
                                              Append(@, NewAttempt(student, now))]]]
                  /\ lastResp' = NoResp

startQuiz(r, id, student) ==
  LET doc == FindById(id) IN
  /\ lastResp = NoResp
  /\ FreeSlot(r)
  /\ UNCHANGED <<db, clock>>
  /\ IF doc = <<>>
     THEN Finish(r, Respond("start", 404, "Quiz not found", <<>>,
                            StartReq(id, student, doc, 0)))
     ELSE LET quiz == doc[1]
              now == clock
              req == StartReq(id, student, doc, now)
          IN IF NotAvailable(now, quiz)
             THEN Finish(r, Respond("start", 400,
                                    "Quiz is not available at this time", <<>>, req))
             ELSE IF ExistingAttempt(quiz, student) # 0
             THEN Finish(r, Respond("start", 400,
                                    "You have already attempted this quiz", <<>>, req))
             ELSE \* bound of the model, not of the code
                  /\ Len(quiz.attempts) + Cardinality(StartsInFlight(id)) < MaxAttempts
                  /\ reqs' = [reqs EXCEPT ![r] =
                                [pc |-> "saving", req |-> req, index |-> 0,
                                 local |-> [quiz EXCEPT !.attempts =
                                              Append(@, NewAttempt(student, now))]]]
                  /\ lastResp' = NoResp

\* variant: the question is passed on as stored
StripQuestionKeepAll(q) == q

\* quizData.questions.map(q => ({_id, questionText, options, marks}))
StripQuestion(q) ==
  [_id |-> q._id, questionText |-> q.questionText,
   options |-> q.options, marks |-> q.marks]

QuizData(quiz) ==
  [quiz EXCEPT !.questions = [i \in 1 .. Len(quiz.questions) |->
                                StripQuestion(quiz.questions[i])]]

\* variant: save() writes the whole document it holds
SavePushWhole(stored, local) == [local EXCEPT !.v = stored.v + 1]

\* variant: save() sends the attempts array it holds as one $set
SavePushSetArray(stored, local) ==
  [stored EXCEPT !.attempts = local.attempts, !.v = @ + 1]

\* quiz.save() after attempts.push: $push of the new element, $inc of __v
SavePush(stored, local) ==
  [stored EXCEPT !.attempts = Append(@, local.attempts[Len(local.attempts)]),
                 !.v = @ + 1]

startQuizSave(r) ==
  LET req == reqs[r].req IN
  /\ lastResp = NoResp
  /\ reqs[r].pc = "saving"
  /\ req.op = "start"
  /\ UNCHANGED clock
  /\ db' = [db EXCEPT ![req.id] = SavePush(@, reqs[r].local)]
  /\ LET saved == [reqs[r].local EXCEPT !.v = @ + 1]
     IN Finish(r, Respond("start", 200, "", <<QuizData(saved)>>, req))

\* ------------------------------------------------------------ submitQuiz
\* variant: an attempt whose duration has run out is no longer active
ActiveAttemptInTime(quiz, student) ==
  FirstIndex({ i \in 1 .. Len(quiz.attempts) :
                 /\ quiz.attempts[i].student = student
                 /\ quiz.attempts[i].status = "in-progress"
                 /\ clock <= quiz.attempts[i].startedAt + quiz.duration })

\* variant: the first attempt in progress, of whichever student
ActiveAttemptOfAnyone(quiz, student) ==
  FirstIndex({ i \in 1 .. Len(quiz.attempts) :
                 quiz.attempts[i].status = "in-progress" })

\* quiz.attempts.find(a => a.student... === user && a.status === 'in-progress')
ActiveAttempt(quiz, student) ==
  FirstIndex({ i \in 1 .. Len(quiz.attempts) :
                 /\ quiz.attempts[i].student = student
                 /\ quiz.attempts[i].status = "in-progress" })

\* quiz.questions[answer.questionIndex]: the question, or undefined
QuestionAt(questions, questionIndex) ==
  IF questionIndex + 1 \in 1 .. Len(questions)
  THEN Some(questions[questionIndex + 1])
  ELSE Undefined

\* variant: score = question.marks in place of score += question.marks
ScoreStepAssign(questions, score, answer) ==
  LET question == QuestionAt(questions, answer.questionIndex)
  IN IF question # Undefined
        /\ question[1].correctAnswer = answer.selectedOption
     THEN question[1].marks
     ELSE score

\* one turn of the forEach callback: the score after this answer
ScoreStep(questions, score, answer) ==
  LET question == QuestionAt(questions, answer.questionIndex)
  IN IF question # Undefined
        /\ question[1].correctAnswer = answer.selectedOption
     THEN score + question[1].marks
     ELSE score

\* variant: the loop ends at the first answer that earns nothing
RECURSIVE ScoreLoopUntilMiss(_, _, _, _)
ScoreLoopUntilMiss(questions, answers, from, score) ==
  IF from > Len(answers) THEN score
  ELSE IF ScoreStep(questions, score, answers[from]) = score THEN score
  ELSE ScoreLoopUntilMiss(questions, answers, from + 1,
                          ScoreStep(questions, score, answers[from]))

\* let score = 0; answers.forEach(...), over answers[from..]
RECURSIVE ScoreLoop(_, _, _, _)
ScoreLoop(questions, answers, from, score) ==
  IF from > Len(answers) THEN score
  ELSE ScoreLoop(questions, answers, from + 1,
                 ScoreStep(questions, score, answers[from]))

Score(questions, answers) == ScoreLoop(questions, answers, 1, 0)

\* fractions
RECURSIVE Gcd(_, _)
Gcd(a, b) == IF b = 0 THEN a ELSE Gcd(b, a % b)

NaN == <<0, 0>>
Frac(n, d) == IF d = 0 THEN NaN ELSE <<n \div Gcd(n, d), d \div Gcd(n, d)>>
Divide(a, b) == Frac(a, b)                     \* a / b of two numbers
Times(f, k) == Frac(f[1] * k, f[2])            \* f * k

\* variant: score / quiz.totalMarks, not scaled to a percentage
PercentageAsFraction(score, totalMarks) == Divide(score, totalMarks)

\* (score / quiz.totalMarks) * 100
Percentage(score, totalMarks) == Times(Divide(score, totalMarks), 100)

SubmitReq(id, student, doc, now) ==
  [op |-> "submit", id |-> id, user |-> student, doc |-> doc, now |-> now]

submitQuiz(r, id, student, body) ==
  LET doc == FindById(id)
      req == SubmitReq(id, student, doc, clock)
  IN
  /\ lastResp = NoResp
  /\ FreeSlot(r)
  /\ UNCHANGED <<db, clock>>
  /\ IF doc = <<>>
     THEN Finish(r, Respond("submit", 404, "Quiz not found", <<>>, req))
     ELSE LET quiz == doc[1]
              i == ActiveAttempt(quiz, student)
          IN IF i = 0
             THEN Finish(r, Respond("submit", 400,
                                    "No active quiz attempt found", <<>>, req))
             ELSE IF body = Undefined
             THEN \* answers.forEach throws a TypeError, caught below
                  Finish(r, Respond("submit", 500, "Server error", <<>>, req))
             ELSE LET answers == body[1]
                      score == Score(quiz.questions, answers)
                      percentage == Percentage(score, quiz.totalMarks)
                  IN /\ reqs' = [reqs EXCEPT ![r] =
                          [pc |-> "saving", req |-> req, index |-> i,
                           local |-> [quiz EXCEPT
                             !.attempts[i].answers = answers,
                             !.attempts[i].score = Some(score),
                             !.attempts[i].percentage = Some(percentage),
                             !.attempts[i].submittedAt = Some(clock),
                             !.attempts[i].status = "completed"]]]
                     /\ lastResp' = NoResp

\* quiz.save() after assignments below attempts.<i>:
\* $set of that element where __v is the one read, $inc of __v
SaveSet(stored, local, i) ==
  [stored EXCEPT !.attempts[i] = local.attempts[i], !.v = @ + 1]

\* variant: the $set is not conditional on __v
submitQuizSaveUnconditional(r) ==
  LET req == reqs[r].req
      local == reqs[r].local
      attempt == local.attempts[reqs[r].index]
  IN
  /\ lastResp = NoResp
  /\ reqs[r].pc = "saving"
  /\ req.op = "submit"
  /\ UNCHANGED clock
  /\ IF attempt.percentage = Some(NaN)
     THEN /\ UNCHANGED db
          /\ Finish(r, Respond("submit", 500, "Server error", <<>>, req))
     ELSE /\ db' = [db EXCEPT ![req.id] = SaveSet(@, local, reqs[r].index)]
          /\ Finish(r, Respond("submit", 200, "Quiz submitted successfully",
                               <<[score |-> attempt.score[1],
                                  totalMarks |-> local.totalMarks,
                                  percentage |-> attempt.percentage[1]]>>,
                               req))

submitQuizSave(r) ==
  LET req == reqs[r].req
      local == reqs[r].local
      attempt == local.attempts[reqs[r].index]
  IN
  /\ lastResp = NoResp
  /\ reqs[r].pc = "saving"
  /\ req.op = "submit"
  /\ UNCHANGED clock
  /\ IF attempt.percentage = Some(NaN)
     THEN \* a Number path does not take NaN: save() rejects in validation
          /\ UNCHANGED db
          /\ Finish(r, Respond("submit", 500, "Server error", <<>>, req))
     ELSE IF db[req.id].v # local.v
     THEN \* VersionError: no document matches the version that was read
          /\ UNCHANGED db
          /\ Finish(r, Respond("submit", 500, "Server error", <<>>, req))
     ELSE /\ db' = [db EXCEPT ![req.id] = SaveSet(@, local, reqs[r].index)]
          /\ Finish(r, Respond("submit", 200, "Quiz submitted successfully",
                               <<[score |-> attempt.score[1],
                                  totalMarks |-> local.totalMarks,
                                  percentage |-> attempt.percentage[1]]>>,
                               req))

\* -------------------------------------------------------- getQuizResults
\* populate('attempts.student', 'name enrollmentNumber')
PopulateStudent(student) ==
  [_id |-> student, name |-> UserName[student],
   enrollmentNumber |-> EnrollmentNumber[student]]

\* variant: every teacher may read the results
NotAuthorizedRoleOnly(quiz, user) == Role(user) \notin {"teacher", "admin"}

\* quiz.teacher.toString() !== req.user._id.toString()
\*   && req.user.role !== 'admin'
NotAuthorized(quiz, user) == quiz.teacher # user /\ Role(user) # "admin"

\* variant: attempts in progress are listed too
IsCompletedAny(a) == TRUE

\* a => a.status === 'completed'
IsCompleted(a) == a.status = "completed"

\* a => ({student, score, percentage, submittedAt})
ResultEntry(a) ==
  [student |-> PopulateStudent(a.student), score |-> a.score,
   percentage |-> a.percentage, submittedAt |-> a.submittedAt]

\* quiz.attempts.filter(..).map(..)
RECURSIVE Results(_)
Results(attempts) ==
  IF attempts = <<>> THEN <<>>
  ELSE (IF IsCompleted(Head(attempts))
        THEN << ResultEntry(Head(attempts)) >> ELSE <<>>)
       \o Results(Tail(attempts))

ResultsReq(id, user, doc) ==
  [op |-> "results", id |-> id, user |-> user, doc |-> doc]

getQuizResults(user, id) ==
  LET doc == FindById(id)
      req == ResultsReq(id, user, doc)
  IN
  /\ lastResp = NoResp
  /\ UNCHANGED <<db, reqs, clock>>
  /\ IF doc = <<>>
     THEN lastResp' = Respond("results", 404, "Quiz not found", <<>>, req)
     ELSE LET quiz == doc[1] IN
          IF NotAuthorized(quiz, user)
          THEN lastResp' = Respond("results", 403, "Not authorized", <<>>, req)
          ELSE LET results == Results(quiz.attempts)
               IN lastResp' = Respond("results", 200, "",
                                      <<[quizTitle |-> quiz.title,
                                         totalMarks |-> quiz.totalMarks,
                                         totalStudents |-> Len(results),
                                         results |-> results]>>,
                                      req)

\* --------------------------------------------------- getQuizzesBySubject
\* variant: a quiz that ends at this instant is no longer listed
NotExpiredStrict(quiz, now) == quiz.endDate > now

\* endDate: { $gte: now }
NotExpired(quiz, now) == quiz.endDate >= now

\* Quiz.find({subject, isActive: true, endDate: {$gte: now}}): the ids
BySubjectQuery(subjectId, now) ==
  { id \in 1 .. Len(db) :
      /\ db[id].subject = subjectId
      /\ db[id].isActive
      /\ NotExpired(db[id], now) }

\* the orders .sort('startDate') can give to the documents found: the
\* order of documents with equal startDate is the store's
SortedByStartDate(ids) ==
  { order \in [1 .. Cardinality(ids) -> ids] :
      \A i, j \in 1 .. Cardinality(ids) :
        i < j => /\ order[i] # order[j]
                 /\ db[order[i]].startDate <= db[order[j]].startDate }

\* select('-questions.correctAnswer')
WithoutCorrectAnswer(quiz) ==
  [quiz EXCEPT !.questions =
     [i \in 1 .. Len(quiz.questions) |->
        [_id |-> quiz.questions[i]._id,
         questionText |-> quiz.questions[i].questionText,
         options |-> quiz.questions[i].options,
         marks |-> quiz.questions[i].marks]]]

\* select(req.user.role === 'student' ? '-questions.correctAnswer' : '')
SelectForRole(role, quiz) ==
  IF role = "student" THEN WithoutCorrectAnswer(quiz) ELSE quiz

\* populate('teacher', 'name')
PopulateTeacher(quiz) ==
  [quiz EXCEPT !.teacher = [_id |-> quiz.teacher, name |-> UserName[quiz.teacher]]]

\* a document of a listing: the quiz with its _id
Listed(id, quiz) == [_id |-> id] @@ quiz

BySubjectReq(user, subjectId, now) ==
  [op |-> "bySubject", user |-> user, subject |-> subjectId, now |-> now]

getQuizzesBySubject(user, subjectId) ==
  LET now == clock
      ids == BySubjectQuery(subjectId, now)
  IN
  /\ lastResp = NoResp
  /\ UNCHANGED <<db, reqs, clock>>
  /\ \E order \in SortedByStartDate(ids) :
       lastResp' = Respond("bySubject", 200, "",
                           [k \in 1 .. Cardinality(ids) |->
                              Listed(order[k],
                                     PopulateTeacher(SelectForRole(Role(user),
                                                                   db[order[k]])))],
                           BySubjectReq(user, subjectId, now))

\* ----------------------------------------------------- getStudentQuizzes
\* variant: the semester of the student is not part of the query
SubjectsOfDepartment(student) ==
  { sub \in DOMAIN SubjectTeacher :
      SubjectDepartment[sub] = StudentDepartment[student] }

\* Subject.find({department: student.department._id,
\*               semester: student.semester}).map(s => s._id)
SubjectsOf(student) ==
  { sub \in DOMAIN SubjectTeacher :
      /\ SubjectDepartment[sub] = StudentDepartment[student]
      /\ SubjectSemester[sub] = StudentSemester[student] }

\* Quiz.find({subject: {$in: subjectIds}, isActive: true}): the ids
StudentQuery(subjectIds) ==
  { id \in 1 .. Len(db) : db[id].subject \in subjectIds /\ db[id].isActive }

\* the orders .sort('-createdAt') can give to the documents found
SortedByCreatedAtDesc(ids) ==
  { order \in [1 .. Cardinality(ids) -> ids] :
      \A i, j \in 1 .. Cardinality(ids) :
        i < j => /\ order[i] # order[j]
                 /\ db[order[i]].createdAt >= db[order[j]].createdAt }

\* populate('subject', 'name code')
PopulateSubject(quiz) ==
  [quiz EXCEPT !.subject = [_id |-> quiz.subject,
                            name |-> SubjectName[quiz.subject],
                            code |-> SubjectCode[quiz.subject]]]

StudentQuizzesReq(student, now) ==
  [op |-> "forStudent", user |-> student, now |-> now]

getStudentQuizzes(student) ==
  /\ lastResp = NoResp
  /\ UNCHANGED <<db, reqs, clock>>
  /\ IF StudentDepartment[student] = NoDepartment
     THEN lastResp' = Respond("forStudent", 200, "", <<>>,
                              StudentQuizzesReq(student, clock))
     ELSE LET ids == StudentQuery(SubjectsOf(student))
          IN \E order \in SortedByCreatedAtDesc(ids) :
               lastResp' = Respond("forStudent", 200, "",
                                   [k \in 1 .. Cardinality(ids) |->
                                      Listed(order[k],
                                             WithoutCorrectAnswer(
                                               PopulateTeacher(
                                                 PopulateSubject(db[order[k]]))))],
                                   StudentQuizzesReq(student, clock))

\* ------------------------------------------------------------------ time
Tick ==
  /\ lastResp = NoResp
  /\ clock < MaxTime
  /\ clock' = clock + 1
  /\ UNCHANGED <<db, reqs, lastResp>>

\* res.json(..) has left: the response is no longer the latest event
ResponseSent ==
  /\ lastResp # NoResp
  /\ lastResp' = NoResp
  /\ UNCHANGED <<db, reqs, clock>>

\* ------------------------------------------------------- specifications
Init ==
  /\ db = <<>>
  /\ reqs = [r \in Slots |-> Idle]
  /\ clock = 0
  /\ lastResp = NoResp

\* concurrent lifecycle: requests of every student overlap
Next ==
  \/ \E t \in Teachers, sub \in SubjectIds, qs \in QuestionInputs,
        d \in Durations, sd \in Dates, ed \in Dates :
       createQuiz(t, "Quiz", sub, qs, d, sd, ed)
  \/ \E r \in Slots, id \in QuizIds, s \in Students : startQuiz(r, id, s)
  \/ \E r \in Slots : startQuizSave(r)
  \/ \E r \in Slots, id \in QuizIds, s \in Students, a \in SubmitBodies :
       submitQuiz(r, id, s, a)
  \/ \E r \in Slots : submitQuizSave(r)
  \/ Tick
  \/ ResponseSent

Spec == Init /\ [][Next]_vars

\* sequential lifecycle: one request at a time, every availability
\* window; the quizzes are those of subject sub1 and its teacher
SeqNext ==
  \/ \E t \in {SubjectTeacher["sub1"]}, sub \in {"sub1"}, qs \in QuestionInputs,
        d \in Durations, sd \in WideDates, ed \in WideDates :
       createQuiz(t, "Quiz", sub, qs, d, sd, ed)
  \/ \E id \in QuizIds, s \in Students : startQuiz("r1", id, s)
  \/ startQuizSave("r1")
  \/ \E id \in QuizIds, s \in Students, a \in AnswerBodies :
       submitQuiz("r1", id, s, a)
  \/ submitQuizSave("r1")
  \/ Tick
  \/ ResponseSent

SeqSpec == Init /\ [][SeqNext]_vars

\* scoring: student s1 has started a quiz and submits every answers array
ScoreInit ==
  /\ \E qs \in QuestionInputs :
       db = << [NewQuiz("t1", "Quiz", "sub1", qs, 1, 1, 1, 0) EXCEPT
                  !.attempts = << NewAttempt("s1", 1) >>, !.v = 1] >>
  /\ reqs = [r \in Slots |-> Idle]
  /\ clock = 1
  /\ lastResp = NoResp

ScoreNext ==
  \/ \E a \in ScoreAnswerBodies : submitQuiz("r1", 1, "s1", a)
  \/ submitQuizSave("r1")
  \/ ResponseSent

ScoreSpec == ScoreInit /\ [][ScoreNext]_vars

\* the principals the results route lets through: authorize('teacher', 'admin')
ResultsRequesters == Teachers \cup Admins

\* sequential lifecycle with the results of a quiz read at every point
ResultsNext ==
  \/ \E t \in Teachers, sub \in SubjectIds, qs \in QuestionInputs,
        d \in Durations, sd \in Dates, ed \in Dates :
       createQuiz(t, "Quiz", sub, qs, d, sd, ed)
  \/ \E id \in QuizIds, s \in Students : startQuiz("r1", id, s)
  \/ startQuizSave("r1")
  \/ \E id \in QuizIds, s \in Students, a \in SubmitBodies :
       submitQuiz("r1", id, s, a)
  \/ submitQuizSave("r1")
  \/ \E u \in ResultsRequesters, id \in QuizIds : getQuizResults(u, id)
  \/ Tick
  \/ ResponseSent

ResultsSpec == Init /\ [][ResultsNext]_vars

\* listings: the store holds up to MaxQuizzes quizzes that createQuiz
\* has stored, of three subjects, with every window
ListQuizzes ==
  { NewQuiz(SubjectTeacher[sub], "Quiz", sub, << QIn(1, 5), QIn(0, 3) >>,
            1, sd, ed, c) :
      sub \in {"sub1", "sub2", "sub3"}, sd \in {0, 1}, ed \in {0, 2},
      c \in {0, 1} }

ListInit ==
  /\ \E quizzes \in SeqsUpTo(ListQuizzes, MaxQuizzes) :
       /\ \A i, j \in 1 .. Len(quizzes) :
            i < j => quizzes[i].createdAt <= quizzes[j].createdAt
       /\ db = quizzes
       /\ clock = IF quizzes = <<>> THEN 0
                  ELSE quizzes[Len(quizzes)].createdAt
  /\ reqs = [r \in Slots |-> Idle]
  /\ lastResp = NoResp

\* the principals of the listings
ListRequesters == {"s1", "t1", "a1"}
ListSubjectIds == {"sub1", "sub2", "sub3", "subX"}

ListNext ==
  \/ \E u \in ListRequesters, sub \in ListSubjectIds :
       getQuizzesBySubject(u, sub)
  \/ \E s \in Students : getStudentQuizzes(s)
  \/ Tick
  \/ ResponseSent

ListSpec == ListInit /\ [][ListNext]_vars

\* createQuiz on its own: every subject, every body
CreateNext ==
  \/ \E t \in Teachers, title \in CreateTitles, sub \in CreateSubjectIds,
        qs \in CreateQuestionInputs, d \in CreateDurations,
        sd \in CreateDates, ed \in CreateDates :
       createQuiz(t, title, sub, qs, d, sd, ed)
  \/ ResponseSent

CreateSpec == Init /\ [][CreateNext]_vars

\* ---------------------------------------------------------------- routes
\* the router of the quizzes: protect, then authorize(..roles), then the
\* handler.  A request without a valid token has no principal.
Anonymous == "anon"
Principals == Students \cup Teachers \cup Admins \cup {Anonymous}

\* protect: the request carries an authenticated principal
protect(user) == user # Anonymous

\* variant: every authenticated principal passes
authorizeAnyRole(roles, user) == TRUE

\* authorize(...roles): the role of req.user is one of roles
authorize(roles, user) == Role(user) \in roles

\* the middleware ends the request: the handler is not called
Refuse(op, status, user) ==
  /\ lastResp = NoResp
  /\ lastResp' = Respond(op, status, "Not authorized", <<>>,
                         [op |-> op, user |-> user])
  /\ UNCHANGED <<db, reqs, clock>>

AnyRole == {"student", "teacher", "admin"}

\* the roles each route hands to authorize (none: every role passes)
RouteRoles ==
  [forStudent |-> {"student"},
   create |-> {"teacher"},
   bySubject |-> AnyRole,
   start |-> {"student"},
   submit |-> {"student"},
   results |-> {"teacher", "admin"}]

\* router.use(protect); router.<method>(path, authorize(..), handler)
Route(op, user, handler) ==
  IF ~protect(user) THEN Refuse(op, 401, user)
  ELSE IF ~authorize(RouteRoles[op], user) THEN Refuse(op, 403, user)
  ELSE handler

\* sequential lifecycle behind the router: every principal calls every
\* route
RouteNext ==
  \/ \E u \in Principals, sub \in SubjectIds, qs \in QuestionInputs,
        d \in Durations, sd \in Dates, ed \in Dates :
       Route("create", u, createQuiz(u, "Quiz", sub, qs, d, sd, ed))
  \/ \E u \in Principals, id \in QuizIds :
       Route("start", u, startQuiz("r1", id, u))
  \/ startQuizSave("r1")
  \/ \E u \in Principals, id \in QuizIds, a \in SubmitBodies :
       Route("submit", u, submitQuiz("r1", id, u, a))
  \/ submitQuizSave("r1")
  \/ \E u \in Principals, id \in QuizIds :
       Route("results", u, getQuizResults(u, id))
  \/ \E u \in Principals, sub \in SubjectIds :
       Route("bySubject", u, getQuizzesBySubject(u, sub))
  \/ \E u \in Principals : Route("forStudent", u, getStudentQuizzes(u))
  \/ Tick
  \/ ResponseSent

RouteSpec == Init /\ [][RouteNext]_vars

\* two quizzes in the store, of two teachers: requests of both students
\* on the first quiz and of one of them on the second overlap, and the
\* quizzes are listed and their results read at every point
FrameQuizIds == {1, 2}
FrameCallers == { <<1, "s1">>, <<1, "s2">>, <<2, "s2">> }

FrameInit ==
  /\ db = << NewQuiz("t1", "Quiz", "sub1", << QIn(1, 5), QIn(0, 3) >>, 1, 1, 1, 0),
             NewQuiz("t2", "Quiz", "sub2", << QIn(0, 2) >>, 1, 1, 1, 1) >>
  /\ reqs = [r \in Slots |-> Idle]
  /\ clock = 1
  /\ lastResp = NoResp

FrameNext ==
  \/ \E r \in Slots, c \in FrameCallers : startQuiz(r, c[1], c[2])
  \/ \E r \in Slots : startQuizSave(r)
  \/ \E r \in Slots, c \in FrameCallers, a \in SubmitBodies :
       submitQuiz(r, c[1], c[2], a)
  \/ \E r \in Slots : submitQuizSave(r)
  \/ \E u \in ResultsRequesters, id \in FrameQuizIds : getQuizResults(u, id)
  \/ \E u \in ListRequesters, sub \in SubjectIds : getQuizzesBySubject(u, sub)
  \/ \E s \in Students : getStudentQuizzes(s)
  \/ ResponseSent

FrameSpec == FrameInit /\ [][FrameNext]_vars

\* scoring on every quiz createQuiz can have stored, those whose marks
\* were posted as strings included
MarksQuestionInputs ==
  { qs \in CreateQuestionInputs : ValidQuiz("Quiz", qs, 1, 1, 1) }

MarksInit ==
  /\ \E qs \in MarksQuestionInputs :
       db = << [NewQuiz("t1", "Quiz", "sub1", qs, 1, 1, 1, 0) EXCEPT
                  !.attempts = << NewAttempt("s1", 1) >>, !.v = 1] >>
  /\ reqs = [r \in Slots |-> Idle]
  /\ clock = 1
  /\ lastResp = NoResp

MarksSpec == MarksInit /\ [][ScoreNext]_vars

\* ------------------------------------------------ assignments, grading
\* submitAssignment, gradeAssignment and updateAssignment of
\* src/controllers/assignmentController.js and gradeSubmission of
\* src/controllers/submissionController.js, over the Assignment and
\* Submission collections.  In the specification of this part db is the
\* record of the two collections, a document's _id being its position.
\* submitAssignment decides on what Submission.findOne gave and writes
\* later, so it is four segments, one per await.  A grading handler and
\* updateAssignment read one document, test it and save top-level paths,
\* which Mongoose sends as a $set that matches on _id alone: whatever
\* runs between the read and the save, the outcome is that of the handler
\* running whole at its read, and each is one action.  title, description
\* and the file fields are read by no code modelled here and are left out.
MaxSubmissions == 3   \* submissions the collection may hold

AssignmentParams == {1, 2, 3}      \* :id of a request; 3 is unknown
SubmissionParams == {1, 2}         \* :submissionId of a request
GradeMarks == { Undefined, Some(0 - 1), Some(1), Some(3) }
UpdateMaxMarks == { Undefined, Some(1) }
UpdateDeadlines == { Undefined, Some(2) }
Feedbacks == { "good" }

\* req.file: absent, or an upload whose mimetype is application/<subtype>
NoFile == "none"
Files == { NoFile, "pdf", "msword" }

\* an assignment as createAssignment stores it
NewAssignment(teacher, maxMarks, deadline) ==
  [teacher |-> teacher, maxMarks |-> maxMarks, deadline |-> deadline,
   submissions |-> <<>>]

\* the document Submission.create is given
NewSubmission(assignment, student, isLate) ==
  [assignment |-> assignment,
   student |-> student,
   marks |-> Undefined,
   feedback |-> Undefined,
   gradedAt |-> Undefined,
   gradedBy |-> Undefined,
   status |-> IF isLate THEN "late" ELSE "submitted",
   isLate |-> isLate]

\* submissionSchema: the enum of fileType
ValidFileType(file) ==
  file \in { "pdf", "doc", "docx", "ppt", "pptx", "txt", "jpg", "jpeg", "png",
             "zip", "other" }

\* new Date() > new Date(assignment.deadline)
IsLate(now, assignment) == now > assignment.deadline

\* submissionSchema.pre('save') of a new document
PreSave(submission, assignments, now) ==
  IF /\ submission.assignment \in 1 .. Len(assignments)
     /\ IsLate(now, assignments[submission.assignment])
  THEN [submission EXCEPT !.isLate = TRUE, !.status = "late"]
  ELSE submission

\* Submission.findOne({assignment, student}): its position, 0 when none
FindOneSubmission(submissions, assignment, student) ==
  FirstIndex({ i \in 1 .. Len(submissions) :
                 /\ submissions[i].assignment = assignment
                 /\ submissions[i].student = student })

\* variant: the collection has no unique index
DuplicateKeyNever(submissions, assignment, student) == FALSE

\* submissionSchema.index({assignment: 1, student: 1}, {unique: true}):
\* an insert of a pair the collection holds fails with E11000
DuplicateKey(submissions, assignment, student) ==
  \E i \in 1 .. Len(submissions) :
    /\ submissions[i].assignment = assignment
    /\ submissions[i].student = student

SubmitAssignmentReq(id, student, file, isLate) ==
  [op |-> "submitAssignment", id |-> id, user |-> student, file |-> file,
   isLate |-> isLate]

\* Assignment.findById has answered
submitAssignment(r, id, student, file) ==
  /\ lastResp = NoResp
  /\ FreeSlot(r)
  /\ UNCHANGED <<db, clock>>
  /\ IF id \notin 1 .. Len(db.assignments)
     THEN Finish(r, Respond("submitAssignment", 404, "Assignment not found",
                            <<>>, SubmitAssignmentReq(id, student, file, FALSE)))
     ELSE /\ reqs' = [reqs EXCEPT ![r] =
                        [pc |-> "findOne", created |-> 0, local |-> Undefined,
                         req |-> SubmitAssignmentReq(
                                   id, student, file,
                                   IsLate(clock, db.assignments[id]))]]
          /\ lastResp' = NoResp

\* Submission.findOne has answered
submitAssignmentFindOne(r) ==
  LET req == reqs[r].req IN
  /\ lastResp = NoResp
  /\ reqs[r].pc = "findOne"
  /\ UNCHANGED <<db, clock>>
  /\ IF FindOneSubmission(db.submissions, req.id, req.user) # 0
     THEN Finish(r, Respond("submitAssignment", 400,
                            "You have already submitted this assignment",
                            <<>>, req))
     ELSE IF req.file = NoFile
     THEN Finish(r, Respond("submitAssignment", 400,
                            "Please upload your assignment file", <<>>, req))
     ELSE /\ reqs' = [reqs EXCEPT ![r].pc = "create"]
          /\ lastResp' = NoResp

\* Submission.create has answered
submitAssignmentCreate(r) ==
  LET req == reqs[r].req IN
  /\ lastResp = NoResp
  /\ reqs[r].pc = "create"
  /\ UNCHANGED clock
  /\ IF ~ValidFileType(req.file)
     THEN \* fileType is not of the enum: a ValidationError, caught below
          /\ UNCHANGED db
          /\ Finish(r, Respond("submitAssignment", 500, "Server error", <<>>, req))
     ELSE IF DuplicateKey(db.submissions, req.id, req.user)
     THEN \* the insert is rejected, the error is caught below
          /\ UNCHANGED db
          /\ Finish(r, Respond("submitAssignment", 500, "Server error", <<>>, req))
     ELSE LET submission == PreSave(NewSubmission(req.id, req.user, req.isLate),
                                   db.assignments, clock)
          IN \* bound of the model, not of the code
             /\ Len(db.submissions) < MaxSubmissions
             /\ db' = [db EXCEPT !.submissions = Append(@, submission)]
             /\ reqs' = [reqs EXCEPT ![r].pc = "save",
                                     ![r].created = Len(db.submissions) + 1,
                                     ![r].local = Some(submission)]
             /\ lastResp' = NoResp

\* assignment.submissions.push(submission._id); assignment.save() has
\* answered: $push of the reference
submitAssignmentSave(r) ==
  LET req == reqs[r].req IN
  /\ lastResp = NoResp
  /\ reqs[r].pc = "save"
  /\ UNCHANGED clock
  /\ db' = [db EXCEPT !.assignments[req.id].submissions =
              Append(@, reqs[r].created)]
  /\ Finish(r, Respond("submitAssignment", 201,
                       IF req.isLate THEN "Assignment submitted late"
                       ELSE "Assignment submitted successfully",
                       reqs[r].local, req))

\* marks > maxMarks of JavaScript: false when marks is undefined (the
\* message of the 400 names the maxMarks compared with)
MarksExceed(marks, maxMarks) == marks # Undefined /\ marks[1] > maxMarks

\* submissionSchema: marks has min 0
ValidMarks(marks) == marks = Undefined \/ marks[1] >= 0

\* submission.marks = ..; feedback = ..; gradedAt = ..; gradedBy = ..;
\* status = 'graded'
Graded(submission, marks, feedback, user, now) ==
  [submission EXCEPT !.marks = marks,
                     !.feedback = Some(feedback),
                     !.gradedAt = Some(now),
                     !.gradedBy = Some(user),
                     !.status = "graded"]

GradeReq(op, id, sid, user, marks) ==
  [op |-> op, id |-> id, sid |-> sid, user |-> user, marks |-> marks]

\* PUT /api/submissions/:id/grade
gradeSubmission(user, sid, marks, feedback) ==
  LET req == GradeReq("gradeSubmission", 0, sid, user, marks) IN
  /\ lastResp = NoResp
  /\ UNCHANGED <<reqs, clock>>
  /\ IF sid \notin 1 .. Len(db.submissions)
     THEN /\ lastResp' = Respond("gradeSubmission", 404, "Submission not found",
                                 <<>>, req)
          /\ UNCHANGED db
     ELSE LET submission == db.submissions[sid]
              assignment == db.assignments[submission.assignment]
          IN IF assignment.teacher # user
             THEN /\ lastResp' = Respond("gradeSubmission", 403,
                                         "Not authorized to grade this submission",
                                         <<>>, req)
                  /\ UNCHANGED db
             ELSE IF MarksExceed(marks, assignment.maxMarks)
             THEN /\ lastResp' = Respond("gradeSubmission", 400,
                                         "Marks cannot exceed maxMarks", <<>>, req)
                  /\ UNCHANGED db
             ELSE IF ~ValidMarks(marks)
             THEN \* save() rejects with a ValidationError, caught below
                  /\ lastResp' = Respond("gradeSubmission", 500, "Server error",
                                         <<>>, req)
                  /\ UNCHANGED db
             ELSE LET graded == Graded(submission, marks, feedback, user, clock)
                  IN /\ db' = [db EXCEPT !.submissions[sid] = graded]
                     /\ lastResp' = Respond("gradeSubmission", 200,
                                            "Submission graded successfully",
                                            <<graded>>, req)

\* PUT /api/assignments/:id/grade/:submissionId
gradeAssignment(user, id, sid, marks, feedback) ==
  LET req == GradeReq("gradeAssignment", id, sid, user, marks) IN
  /\ lastResp = NoResp
  /\ UNCHANGED <<reqs, clock>>
  /\ IF id \notin 1 .. Len(db.assignments)
     THEN /\ lastResp' = Respond("gradeAssignment", 404, "Assignment not found",
                                 <<>>, req)
          /\ UNCHANGED db
     ELSE IF db.assignments[id].teacher # user
     THEN /\ lastResp' = Respond("gradeAssignment", 403,
                                 "Not authorized to grade this assignment",
                                 <<>>, req)
          /\ UNCHANGED db
     ELSE IF sid \notin 1 .. Len(db.submissions)
     THEN /\ lastResp' = Respond("gradeAssignment", 404, "Submission not found",
                                 <<>>, req)
          /\ UNCHANGED db
     ELSE IF MarksExceed(marks, db.assignments[id].maxMarks)
     THEN /\ lastResp' = Respond("gradeAssignment", 400,
                                 "Marks cannot exceed maxMarks", <<>>, req)
          /\ UNCHANGED db
     ELSE IF ~ValidMarks(marks)
     THEN /\ lastResp' = Respond("gradeAssignment", 500, "Server error",
                                 <<>>, req)
          /\ UNCHANGED db
     ELSE LET graded == Graded(db.submissions[sid], marks, feedback, user, clock)
          IN /\ db' = [db EXCEPT !.submissions[sid] = graded]
             /\ lastResp' = Respond("gradeAssignment", 200,
                                    "Submission graded successfully",
                                    <<graded>>, req)

\* value || assignment.field: the value posted unless it is falsy
OrElse(value, stored) ==
  IF value = Undefined \/ value = Some(0) THEN stored ELSE value[1]

UpdateReq(id, user, maxMarks, deadline) ==
  [op |-> "updateAssignment", id |-> id, user |-> user,
   maxMarks |-> maxMarks, deadline |-> deadline]

\* PUT /api/assignments/:id
updateAssignment(user, id, maxMarks, deadline) ==
  LET req == UpdateReq(id, user, maxMarks, deadline) IN
  /\ lastResp = NoResp
  /\ UNCHANGED <<reqs, clock>>
  /\ IF id \notin 1 .. Len(db.assignments)
     THEN /\ lastResp' = Respond("updateAssignment", 404, "Assignment not found",
                                 <<>>, req)
          /\ UNCHANGED db
     ELSE IF db.assignments[id].teacher # user
     THEN /\ lastResp' = Respond("updateAssignment", 403,
                                 "Not authorized to update this assignment",
                                 <<>>, req)
          /\ UNCHANGED db
     ELSE LET updated == [db.assignments[id] EXCEPT
                            !.maxMarks = OrElse(maxMarks, @),
                            !.deadline = OrElse(deadline, @)]
          IN IF updated.maxMarks < 1
             THEN \* assignmentSchema: maxMarks has min 1
                  /\ lastResp' = Respond("updateAssignment", 500, "Server error",
                                         <<>>, req)
                  /\ UNCHANGED db
             ELSE /\ db' = [db EXCEPT !.assignments[id] = updated]
                  /\ lastResp' = Respond("updateAssignment", 200, "",
                                         <<updated>>, req)

\* two assignments of two teachers, not yet submitted to
AssignInit ==
  /\ db = [assignments |-> << NewAssignment("t1", 2, 1),
                              NewAssignment("t2", 3, 1) >>,
           submissions |-> <<>>]
  /\ reqs = [r \in Slots |-> Idle]
  /\ clock = 0
  /\ lastResp = NoResp

\* submissions of the students to the first assignment overlap
SubmitParams == {1, 3}

SubmitNext ==
  \/ \E r \in Slots, id \in SubmitParams, s \in Students,
        file \in Files : submitAssignment(r, id, s, file)
  \/ \E r \in Slots : submitAssignmentFindOne(r)
  \/ \E r \in Slots : submitAssignmentCreate(r)
  \/ \E r \in Slots : submitAssignmentSave(r)
  \/ Tick
  \/ ResponseSent

SubmitSpec == AssignInit /\ [][SubmitNext]_vars

\* one student submits to both assignments, one request at a time; the
\* submissions are graded and regraded by both teachers while the
\* assignments are updated
GradeStudents == {"s1"}
GradeFiles == {"pdf"}

GradeNext ==
  \/ \E id \in AssignmentParams, s \in GradeStudents, file \in GradeFiles :
       submitAssignment("r1", id, s, file)
  \/ submitAssignmentFindOne("r1")
  \/ submitAssignmentCreate("r1")
  \/ submitAssignmentSave("r1")
  \/ \E t \in Teachers, sid \in SubmissionParams, m \in GradeMarks,
        f \in Feedbacks : gradeSubmission(t, sid, m, f)
  \/ \E t \in Teachers, id \in AssignmentParams, sid \in SubmissionParams,
        m \in GradeMarks, f \in Feedbacks : gradeAssignment(t, id, sid, m, f)
  \/ \E t \in Teachers, id \in AssignmentParams, m \in UpdateMaxMarks,
        d \in UpdateDeadlines : updateAssignment(t, id, m, d)
  \/ ResponseSent

GradeSpec == AssignInit /\ [][GradeNext]_vars

\* ------------------------------------------------------------ properties
NotAvailableMsg == "Quiz is not available at this time"
AlreadyAttemptedMsg == "You have already attempted this quiz"
NoActiveAttemptMsg == "No active quiz attempt found"

\* the response just sent is one of op on a quiz that exists
Answered(op) == lastResp.op = op /\ lastResp.req.doc # <<>>

\* the positions of student's attempts in a quiz document
AttemptsOf(quiz, student) ==
  { i \in 1 .. Len(quiz.attempts) : quiz.attempts[i].student = student }

HasStatus(quiz, student, status) ==
  \E i \in AttemptsOf(quiz, student) : quiz.attempts[i].status = status

\* C1: no quiz ever holds two attempts of the same student.
C1_OneAttemptPerStudent ==
  \A id \in 1 .. Len(db) : \A student \in Students :
    Cardinality(AttemptsOf(db[id], student)) <= 1

\* C2: a startQuiz that succeeds has appended the only attempt of its
\* student: the existing-attempt check and the append are one atomic
\* conditional update, so of two overlapping requests one is refused.
C2_StartIsAtomic ==
  (Answered("start") /\ lastResp.status = 200)
    => AttemptsOf(lastResp.req.doc[1], lastResp.req.user) = {}
       /\ Cardinality(AttemptsOf(db[lastResp.req.id], lastResp.req.user)) = 1

\* C3 as stated: outside the window startQuiz answers 400 "not available"
\* and creates no attempt; at now = startDate and at now = endDate it is
\* not refused for availability.
C3_WindowAsStated ==
  Answered("start") =>
    LET quiz == lastResp.req.doc[1]
        now == lastResp.req.now
    IN /\ (now < quiz.startDate \/ now > quiz.endDate)
            => /\ lastResp.status = 400
               /\ lastResp.message = NotAvailableMsg
               /\ db[lastResp.req.id] = quiz
               /\ \A r \in Slots : reqs[r].pc = "idle"
       /\ (now = quiz.startDate \/ now = quiz.endDate)
            => lastResp.message # NotAvailableMsg

\* C3 amended: outside the window startQuiz answers 400 "not available"
\* and creates no attempt; on a quiz with startDate <= endDate it is not
\* refused for availability at now = startDate nor at now = endDate.
C3_Window ==
  Answered("start") =>
    LET quiz == lastResp.req.doc[1]
        now == lastResp.req.now
    IN /\ (now < quiz.startDate \/ now > quiz.endDate)
            => /\ lastResp.status = 400
               /\ lastResp.message = NotAvailableMsg
               /\ db[lastResp.req.id] = quiz
               /\ \A r \in Slots : reqs[r].pc = "idle"
       /\ (quiz.startDate <= quiz.endDate
           /\ (now = quiz.startDate \/ now = quiz.endDate))
            => lastResp.message # NotAvailableMsg

\* C3 witness: a start at now = endDate, after startDate, has succeeded
C3_StartedAtBoundary ==
  /\ Answered("start")
  /\ lastResp.status = 200
  /\ lastResp.req.now = lastResp.req.doc[1].endDate
  /\ lastResp.req.doc[1].startDate < lastResp.req.now

\* C4 as stated: startQuiz of a student who has an attempt on the quiz,
\* in progress or completed, answers 400 "already attempted" and leaves
\* the attempts as they are.
C4_AlreadyAttemptedAsStated ==
  (Answered("start")
   /\ AttemptsOf(lastResp.req.doc[1], lastResp.req.user) # {})
    => /\ lastResp.status = 400
       /\ lastResp.message = AlreadyAttemptedMsg
       /\ db[lastResp.req.id].attempts = lastResp.req.doc[1].attempts

\* C4 amended: startQuiz of a student who has an attempt on the quiz, in
\* progress or completed, answers 400 and leaves the attempts as they
\* are: "already attempted" inside the availability window, "not
\* available" outside it.
C4_AlreadyAttempted ==
  (Answered("start")
   /\ AttemptsOf(lastResp.req.doc[1], lastResp.req.user) # {})
    => LET quiz == lastResp.req.doc[1]
           now == lastResp.req.now
       IN /\ lastResp.status = 400
          /\ lastResp.message =
               IF now < quiz.startDate \/ now > quiz.endDate
               THEN NotAvailableMsg ELSE AlreadyAttemptedMsg
          /\ db[lastResp.req.id].attempts = quiz.attempts

\* C4 witness: a student whose attempt is completed was refused a start
C4_RefusedAfterCompleted ==
  /\ Answered("start")
  /\ lastResp.message = AlreadyAttemptedMsg
  /\ HasStatus(lastResp.req.doc[1], lastResp.req.user, "completed")

\* C5: submitQuiz of a student who has no attempt in progress on the
\* quiz answers 400 "no active attempt" and leaves the quiz as stored;
\* and once the student has a completed attempt, that is, after a
\* submitQuiz that succeeded, no further submitQuiz of the student
\* succeeds or changes the quiz.
C5_NoActiveAttempt ==
  Answered("submit") =>
    LET quiz == lastResp.req.doc[1]
        student == lastResp.req.user
    IN /\ ~HasStatus(quiz, student, "in-progress")
            => /\ lastResp.status = 400
               /\ lastResp.message = NoActiveAttemptMsg
               /\ db[lastResp.req.id] = quiz
       /\ HasStatus(quiz, student, "completed")
            => /\ lastResp.status # 200
               /\ db[lastResp.req.id] = quiz

\* C6: a quiz is never removed and its attempts only grow at the end;
\* an attempt keeps its student; a new attempt is in progress and comes
\* with a startQuiz that succeeds; the only change of status is from
\* in-progress to completed and comes with a submitQuiz that succeeds.
AttemptStep(old, new) ==
  /\ Len(new) >= Len(old)
  /\ \A i \in 1 .. Len(old) :
       /\ new[i].student = old[i].student
       /\ \/ new[i].status = old[i].status
          \/ /\ old[i].status = "in-progress"
             /\ new[i].status = "completed"
             /\ lastResp'.op = "submit"
             /\ lastResp'.status = 200
  /\ \A i \in (Len(old) + 1) .. Len(new) :
       /\ new[i].status = "in-progress"
       /\ lastResp'.op = "start"
       /\ lastResp'.status = 200
       /\ new[i].student = lastResp'.req.user

C7_NoCorrectAnswerInStart ==
  (Answered("start") /\ lastResp.status = 200) =>
    LET sent == lastResp.body[1].questions
        stored == db[lastResp.req.id].questions
    IN /\ Len(sent) = Len(stored)
       /\ \A i \in 1 .. Len(sent) :
            /\ DOMAIN sent[i] = {"_id", "questionText", "options", "marks"}
            /\ sent[i]._id = stored[i]._id
            /\ sent[i].questionText = stored[i].questionText
            /\ sent[i].options = stored[i].options
            /\ sent[i].marks = stored[i].marks

\* C7 witness: a quiz with questions has been sent to a student
C7_QuestionsSent ==
  /\ Answered("start")
  /\ lastResp.status = 200
  /\ Len(lastResp.body[1].questions) > 0

\* the attempt a submitQuiz that succeeded has completed
Submitted ==
  db[lastResp.req.id].attempts[ActiveAttempt(lastResp.req.doc[1],
                                             lastResp.req.user)]

\* what one entry of the answers earns: the marks of the question it
\* names when that question exists and the entry selects its correct
\* option, and nothing otherwise
Earned(questions, entry) ==
  IF /\ entry.questionIndex >= 0
     /\ entry.questionIndex < Len(questions)
     /\ questions[entry.questionIndex + 1].correctAnswer = entry.selectedOption
  THEN questions[entry.questionIndex + 1].marks
  ELSE 0

RECURSIVE SumEarned(_, _)
SumEarned(questions, answers) ==
  IF answers = <<>> THEN 0
  ELSE Earned(questions, Head(answers)) + SumEarned(questions, Tail(answers))

\* C8: the score returned and stored by a submitQuiz that succeeds is the
\* sum over the entries of the answers, one by one, of what each earns:
\* an entry whose question index is out of range earns nothing, and an
\* entry that is repeated earns again.
C8_ScoreIsSumOfEntries ==
  (Answered("submit") /\ lastResp.status = 200) =>
    LET questions == db[lastResp.req.id].questions
        answers == Submitted.answers
    IN /\ lastResp.body[1].score = SumEarned(questions, answers)
       /\ Submitted.score = Some(lastResp.body[1].score)
       /\ \A i \in 1 .. Len(answers) :
            answers[i].questionIndex >= Len(questions) =>
              lastResp.body[1].score =
                SumEarned(questions, SubSeq(answers, 1, i - 1)
                                     \o SubSeq(answers, i + 1, Len(answers)))

\* C8 witness: the same correct entry was submitted twice and earned twice
C8_RepeatedEntryScored ==
  /\ Answered("submit")
  /\ lastResp.status = 200
  /\ Len(Submitted.answers) = 2
  /\ Submitted.answers[1] = Submitted.answers[2]
  /\ lastResp.body[1].score > lastResp.body[1].totalMarks

IsPermutation(a, b) ==
  /\ Len(a) = Len(b)
  /\ \E f \in [1 .. Len(a) -> 1 .. Len(a)] :
       /\ \A i, j \in 1 .. Len(a) : f[i] = f[j] => i = j
       /\ \A i \in 1 .. Len(a) : b[i] = a[f[i]]

\* C9: every answers array that is a permutation of the one submitted
\* gets the same score and the same percentage on that quiz.
C9_OrderIndependent ==
  (Answered("submit") /\ lastResp.status = 200) =>
    LET quiz == db[lastResp.req.id]
    IN \A b \in ScoreAnswerSeqs :
         IsPermutation(Submitted.answers, b) =>
           /\ Score(quiz.questions, b) = lastResp.body[1].score
           /\ Percentage(Score(quiz.questions, b), quiz.totalMarks)
                = lastResp.body[1].percentage

\* C9 witness: two different entries were submitted, the first earning
\* nothing and the second earning marks
C9_MixedAnswersScored ==
  /\ Answered("submit")
  /\ lastResp.status = 200
  /\ Len(Submitted.answers) = 2
  /\ Earned(db[lastResp.req.id].questions, Submitted.answers[1]) = 0
  /\ Earned(db[lastResp.req.id].questions, Submitted.answers[2]) > 0

RECURSIVE SumStoredMarks(_)
SumStoredMarks(questions) ==
  IF questions = <<>> THEN 0
  ELSE Head(questions).marks + SumStoredMarks(Tail(questions))

\* C11: every quiz in the store, at creation and after any sequence of
\* operations, has totalMarks equal to the sum of the marks of its
\* questions.
C11_TotalMarksIsSum ==
  \A id \in 1 .. Len(db) :
    db[id].totalMarks = SumStoredMarks(db[id].questions)

\* C12: createQuiz adds a quiz only when the subject exists and the
\* requester is its assigned teacher; on an unknown subject it answers
\* 404, to a requester who is not the assigned teacher of the subject it
\* answers 403, and in both cases the store is left as it was.
C12_OnlyAssignedTeacherCreates ==
  [][ lastResp'.op = "create" =>
        LET req == lastResp'.req
            known == req.subject \in DOMAIN SubjectTeacher
        IN /\ db' # db => (known /\ SubjectTeacher[req.subject] = req.user)
           /\ ~known => (lastResp'.status = 404 /\ db' = db)
           /\ (known /\ SubjectTeacher[req.subject] # req.user)
                => (lastResp'.status = 403 /\ db' = db)
    ]_vars

\* the positions of the completed attempts of a quiz
CompletedAt(quiz) ==
  { i \in 1 .. Len(quiz.attempts) : quiz.attempts[i].status = "completed" }

\* C13: getQuizResults succeeds only for the teacher of the quiz and for
\* an admin; a teacher who does not own the quiz is answered 403 without
\* any result data, whatever attempts the quiz holds.
C13_ResultsOnlyOwnerOrAdmin ==
  Answered("results") =>
    LET quiz == lastResp.req.doc[1]
        user == lastResp.req.user
    IN /\ lastResp.status = 200
            => (quiz.teacher = user \/ Role(user) = "admin")
       /\ (Role(user) = "teacher" /\ quiz.teacher # user)
            => (lastResp.status = 403 /\ lastResp.body = <<>>)

\* C13 witness: a teacher who does not own a quiz that has a completed
\* attempt was refused its results
C13_NonOwnerRefused ==
  /\ Answered("results")
  /\ lastResp.status = 403
  /\ Role(lastResp.req.user) = "teacher"
  /\ CompletedAt(lastResp.req.doc[1]) # {}

\* C14: the results of a getQuizResults that succeeds are, in the order
\* of the attempts, one entry for each completed attempt of the quiz and
\* none for an attempt in progress; an entry has the student, score,
\* percentage and submittedAt of its attempt; totalStudents is the number
\* of completed attempts.
C14_ResultsAreCompletedAttempts ==
  (Answered("results") /\ lastResp.status = 200) =>
    LET quiz == lastResp.req.doc[1]
        results == lastResp.body[1].results
        completed == CompletedAt(quiz)
    IN /\ Len(results) = Cardinality(completed)
       /\ lastResp.body[1].totalStudents = Cardinality(completed)
       /\ \A i \in completed :
            LET k == Cardinality({ j \in completed : j <= i })
                a == quiz.attempts[i]
            IN /\ DOMAIN results[k]
                    = {"student", "score", "percentage", "submittedAt"}
               /\ results[k].student._id = a.student
               /\ results[k].score = a.score
               /\ results[k].percentage = a.percentage
               /\ results[k].submittedAt = a.submittedAt

\* C14 witness: the results of a quiz with one attempt completed and one
\* in progress were read
C14_MixedAttemptsRead ==
  /\ Answered("results")
  /\ lastResp.status = 200
  /\ CompletedAt(lastResp.req.doc[1]) # {}
  /\ Len(lastResp.req.doc[1].attempts) > Cardinality(CompletedAt(lastResp.req.doc[1]))

\* the ids of the documents of a listing
ListedIds(body) == { body[k]._id : k \in 1 .. Len(body) }

\* no question of the documents of a listing has a correctAnswer
NoCorrectAnswer(body) ==
  \A k \in 1 .. Len(body) : \A i \in 1 .. Len(body[k].questions) :
    "correctAnswer" \notin DOMAIN body[k].questions[i]

\* C15: getQuizzesBySubject answers every role with the quizzes of the
\* subject whose endDate >= now, each once, and with no quiz whose
\* endDate < now; answered to a student, no question has a correctAnswer.
C15_SubjectListing ==
  lastResp.op = "bySubject" =>
    LET body == lastResp.body
        req == lastResp.req
    IN /\ lastResp.status = 200
       /\ ListedIds(body) = { id \in 1 .. Len(db) :
                                /\ db[id].subject = req.subject
                                /\ db[id].endDate >= req.now }
       /\ Len(body) = Cardinality(ListedIds(body))
       /\ \A k \in 1 .. Len(body) :
            /\ body[k].endDate >= req.now
            /\ body[k].title = db[body[k]._id].title
            /\ body[k].startDate = db[body[k]._id].startDate
            /\ Len(body[k].questions) = Len(db[body[k]._id].questions)
       /\ Role(req.user) = "student" => NoCorrectAnswer(body)

\* C15 witness: a student was listed a quiz that ends at this instant
\* while the subject has another quiz that has expired
C15_ExpiredHidden ==
  /\ lastResp.op = "bySubject"
  /\ Role(lastResp.req.user) = "student"
  /\ \E k \in 1 .. Len(lastResp.body) :
       lastResp.body[k].endDate = lastResp.req.now
  /\ \E id \in 1 .. Len(db) :
       /\ db[id].subject = lastResp.req.subject
       /\ db[id].endDate < lastResp.req.now

\* C16: getStudentQuizzes answers a student with the active quizzes of
\* the subjects of the student's department and semester, each once,
\* expired or not; a student without a department with the empty list;
\* and no question has a correctAnswer.
C16_StudentListing ==
  lastResp.op = "forStudent" =>
    LET body == lastResp.body
        student == lastResp.req.user
    IN /\ lastResp.status = 200
       /\ ListedIds(body) =
            { id \in 1 .. Len(db) :
                /\ db[id].isActive
                /\ StudentDepartment[student] # NoDepartment
                /\ SubjectDepartment[db[id].subject] = StudentDepartment[student]
                /\ SubjectSemester[db[id].subject] = StudentSemester[student] }
       /\ Len(body) = Cardinality(ListedIds(body))
       /\ StudentDepartment[student] = NoDepartment => body = <<>>
       /\ NoCorrectAnswer(body)

\* C16 witness: a student was listed a quiz whose endDate is past while
\* the store holds a quiz of another semester or department
C16_ExpiredListed ==
  /\ lastResp.op = "forStudent"
  /\ \E k \in 1 .. Len(lastResp.body) :
       lastResp.body[k].endDate < lastResp.req.now
  /\ Len(db) > Len(lastResp.body)

\* C17: submitQuiz of a student who has an attempt in progress is never
\* refused, at whatever time it comes: not as not found, not as without
\* active attempt, not as not available; when it succeeds, the attempt is
\* completed at that time and the score is what the entries of the
\* answers earn, whatever the time.
C17_LateSubmitAccepted ==
  (Answered("submit")
   /\ HasStatus(lastResp.req.doc[1], lastResp.req.user, "in-progress")) =>
    /\ lastResp.status \notin {400, 403, 404}
    /\ lastResp.message # NotAvailableMsg
    /\ lastResp.status = 200 =>
         /\ Submitted.status = "completed"
         /\ Submitted.submittedAt = Some(lastResp.req.now)
         /\ lastResp.body[1].score
              = SumEarned(db[lastResp.req.id].questions, Submitted.answers)

\* C17 witness: a submitQuiz has succeeded after the endDate of the quiz
\* and after startedAt + duration of the attempt
C17_SubmittedLate ==
  /\ Answered("submit")
  /\ lastResp.status = 200
  /\ lastResp.req.now > lastResp.req.doc[1].endDate
  /\ lastResp.req.now > Submitted.startedAt + lastResp.req.doc[1].duration
  /\ lastResp.body[1].score > 0

C19_ValidatedBeforeCreate ==
  /\ \A id \in 1 .. Len(db) :
       Len(db[id].questions) >= 1 /\ db[id].totalMarks # 0
  /\ (lastResp.op = "create" /\ lastResp.req.errors # {})
       => (lastResp.status >= 400 /\ lastResp.body = <<>>)

\* C20: in every quiz in the store, every question has at least one
\* option, a correctAnswer that is an index of its options, counted from
\* 0, and marks >= 1; and the duration of the quiz is >= 1.
C20_StoredQuizWellFormed ==
  \A id \in 1 .. Len(db) :
    /\ db[id].duration >= 1
    /\ \A i \in 1 .. Len(db[id].questions) :
         LET q == db[id].questions[i]
         IN /\ Len(q.options) >= 1
            /\ 0 <= q.correctAnswer
            /\ q.correctAnswer < Len(q.options)
            /\ q.marks >= 1

\* C21: every quiz route needs an authenticated principal, and a request
\* whose role the route does not allow (createQuiz: teacher; startQuiz,
\* submitQuiz and the student listing: student; getQuizResults: teacher or
\* admin) is refused and never changes the quiz state: the store changes
\* only together with the response to a request of an allowed role, and
\* only a student's request waits for its save
C21_Allowed ==
  [create |-> {"teacher"}, start |-> {"student"}, submit |-> {"student"},
   forStudent |-> {"student"}, results |-> {"teacher", "admin"},
   bySubject |-> {"student", "teacher", "admin"}]

C21_Permitted(resp) ==
  /\ resp.req.user # Anonymous
  /\ Role(resp.req.user) \in C21_Allowed[resp.req.op]

C21_RoleGate ==
  [][ /\ (lastResp' # NoResp /\ ~C21_Permitted(lastResp'))
         => /\ lastResp'.status \in {401, 403}
            /\ lastResp'.body = <<>>
            /\ db' = db
            /\ reqs' = reqs
      /\ db' # db => (lastResp' # NoResp /\ C21_Permitted(lastResp'))
      /\ \A r \in Slots :
           reqs'[r].pc # "idle" => Role(reqs'[r].req.user) = "student" ]_vars

\* a teacher's startQuiz on a quiz that is open is refused
C21_TeacherStartRefused ==
  /\ lastResp # NoResp
  /\ lastResp.op = "start"
  /\ lastResp.status = 403
  /\ Role(lastResp.req.user) = "teacher"
  /\ Len(db) >= 1
  /\ ~NotAvailable(clock, db[1])

\* C22: requests that overlap on a quiz lose nothing: the step that answers
\* a startQuiz with 200 leaves in the stored quiz the attempt that request
\* appended, the step that answers a submitQuiz with 200 leaves there the
\* completed attempt that request computed, and no step removes an attempt
\* or changes one it finds, other than the submitQuiz answered 200 that
\* completes the in-progress attempt of its own student
C22_StartEffect(resp) ==
  \E i \in 1 .. Len(db'[resp.req.id].attempts) :
    db'[resp.req.id].attempts[i] = NewAttempt(resp.req.user, resp.req.now)

C22_SubmitEffect(resp) ==
  \E i \in 1 .. Len(db'[resp.req.id].attempts) :
    LET a == db'[resp.req.id].attempts[i]
    IN /\ a.student = resp.req.user
       /\ a.status = "completed"
       /\ a.submittedAt = Some(resp.req.now)
       /\ a.score = Some(resp.body[1].score)
       /\ a.percentage = Some(resp.body[1].percentage)

C22_Kept(id, i) ==
  \/ db'[id].attempts[i] = db[id].attempts[i]
  \/ /\ db[id].attempts[i].status = "in-progress"
     /\ lastResp' # NoResp
     /\ lastResp'.op = "submit"
     /\ lastResp'.status = 200
     /\ lastResp'.req.id = id
     /\ lastResp'.req.user = db[id].attempts[i].student
     /\ db'[id].attempts[i].student = db[id].attempts[i].student
     /\ db'[id].attempts[i].startedAt = db[id].attempts[i].startedAt
     /\ db'[id].attempts[i].status = "completed"

C22_NothingLost ==
  [][ /\ (lastResp' # NoResp /\ lastResp'.status = 200 /\ lastResp'.op = "start")
         => C22_StartEffect(lastResp')
      /\ (lastResp' # NoResp /\ lastResp'.status = 200 /\ lastResp'.op = "submit")
         => C22_SubmitEffect(lastResp')
      /\ Len(db') >= Len(db)
      /\ \A id \in 1 .. Len(db) :
           /\ Len(db'[id].attempts) >= Len(db[id].attempts)
           /\ \A i \in 1 .. Len(db[id].attempts) : C22_Kept(id, i) ]_vars

\* a startQuiz answered 200 whose snapshot missed the attempt another
\* student's request stored meanwhile: both attempts are in the store
C22_BothStartsStored ==
  /\ lastResp # NoResp
  /\ lastResp.op = "start"
  /\ lastResp.status = 200
  /\ Len(lastResp.req.doc[1].attempts) = 0
  /\ Len(db[lastResp.req.id].attempts) = 2
  /\ db[lastResp.req.id].attempts[1].student # lastResp.req.user
  /\ db[lastResp.req.id].attempts[2].student = lastResp.req.user

\* C23: submitQuiz changes an attempt once.  A submitQuiz answered 200 has
\* written on the document it read, so no other write fell between its
\* read and its save; it stores the answers, score, percentage and
\* submittedAt it computed; every other submitQuiz of the same student
\* that has read the quiz and waits for its save can no longer succeed;
\* and no step changes an attempt that is completed.
C23_Succeeds(r) ==
  /\ reqs[r].pc = "saving"
  /\ reqs[r].req.op = "submit"
  /\ reqs'[r].pc = "idle"
  /\ lastResp'.status = 200

C23_StoredAsComputed(r) ==
  LET id == reqs[r].req.id
      i == reqs[r].index
  IN /\ db[id] = reqs[r].req.doc[1]
     /\ db'[id].attempts[i] = reqs[r].local.attempts[i]
     /\ db'[id].attempts[i].student = reqs[r].req.user
     /\ db'[id].attempts[i].submittedAt = Some(reqs[r].req.now)
     /\ \A j \in 1 .. Len(db[id].attempts) :
          j # i => db'[id].attempts[j] = db[id].attempts[j]

C23_OthersFail(r) ==
  \A o \in Slots \ {r} :
    (/\ reqs'[o].pc = "saving"
     /\ reqs'[o].req.op = "submit"
     /\ reqs'[o].req.id = reqs[r].req.id
     /\ reqs'[o].req.user = reqs[r].req.user)
      => reqs'[o].local.v # db'[reqs[r].req.id].v

C24_SameVersion(id) == [db' EXCEPT ![id].v = db[id].v]

C24_StartFrame(resp) ==
  C24_SameVersion(resp.req.id) =
    [db EXCEPT ![resp.req.id].attempts =
                 Append(@, NewAttempt(resp.req.user, resp.req.now))]

C24_SubmitFrame(resp) ==
  \E i \in 1 .. Len(db[resp.req.id].attempts) :
    /\ db[resp.req.id].attempts[i].student = resp.req.user
    /\ db'[resp.req.id].attempts[i].student = resp.req.user
    /\ C24_SameVersion(resp.req.id) =
         [db EXCEPT ![resp.req.id].attempts[i] = db'[resp.req.id].attempts[i]]

C24_Frame ==
  [][ IF lastResp' # NoResp /\ lastResp'.status = 200 /\ lastResp'.op = "start"
      THEN C24_StartFrame(lastResp')
      ELSE IF lastResp' # NoResp /\ lastResp'.status = 200
              /\ lastResp'.op = "submit"
      THEN C24_SubmitFrame(lastResp')
      ELSE db' = db ]_vars

\* a submitQuiz has succeeded on a quiz that holds another student's
\* attempt while the other quiz holds attempts too
C24_SubmittedAmongOthers ==
  /\ lastResp # NoResp
  /\ lastResp.op = "submit"
  /\ lastResp.status = 200
  /\ Len(db) = 2
  /\ lastResp.req.id = 1
  /\ Len(db[1].attempts) = 2
  /\ Len(db[2].attempts) >= 1
  /\ \E i \in 1 .. 2 : db[1].attempts[i].student # lastResp.req.user

\* C26: a completed attempt whose answers name every question index at
\* most once has 0 <= score <= totalMarks of its quiz and
\* 0 <= percentage <= 100
C26_OneEntryPerQuestion(answers) ==
  \A i, j \in 1 .. Len(answers) :
    i # j => answers[i].questionIndex # answers[j].questionIndex

C27_NoOtherStudentsAttempt ==
  (Answered("start") /\ lastResp.status = 200) =>
    \A i \in 1 .. Len(lastResp.body[1].attempts) :
      lastResp.body[1].attempts[i].student = lastResp.req.user

\* C28: every stored attempt is well formed.  One in progress has
\* startedAt inside the window of its quiz and no answers, score,
\* percentage or submittedAt; a completed one has a score, a percentage
\* that is a number and a submittedAt that is not before startedAt; and
\* the score, totalMarks and percentage a submitQuiz answers with are
\* those stored in the attempt it completed and in its quiz.
C28_AttemptWellFormed(quiz, a) ==
  /\ a.status \in {"in-progress", "completed"}
  /\ a.status = "in-progress" =>
       /\ quiz.startDate <= a.startedAt
       /\ a.startedAt <= quiz.endDate
       /\ a.answers = <<>>
       /\ a.score = Undefined
       /\ a.percentage = Undefined
       /\ a.submittedAt = Undefined
  /\ a.status = "completed" =>
       /\ a.score # Undefined
       /\ a.percentage # Undefined
       /\ a.percentage # Some(NaN)
       /\ a.submittedAt # Undefined
       /\ a.submittedAt[1] >= a.startedAt

C28_WellFormed ==
  /\ \A id \in 1 .. Len(db) : \A i \in 1 .. Len(db[id].attempts) :
       C28_AttemptWellFormed(db[id], db[id].attempts[i])
  /\ (Answered("submit") /\ lastResp.status = 200) =>
       /\ Submitted.status = "completed"
       /\ Submitted.score = Some(lastResp.body[1].score)
       /\ Submitted.percentage = Some(lastResp.body[1].percentage)
       /\ db[lastResp.req.id].totalMarks = lastResp.body[1].totalMarks

\* an attempt started at the first instant of a window that is still open
\* has been submitted at a later instant
C28_SubmittedLater ==
  /\ Answered("submit")
  /\ lastResp.status = 200
  /\ Submitted.startedAt = db[lastResp.req.id].startDate
  /\ Submitted.submittedAt[1] > Submitted.startedAt
  /\ Submitted.submittedAt[1] <= db[lastResp.req.id].endDate

\* the submissions of a student to an assignment, and the references to
\* them in the assignment's list
SubmissionsOf(assignment, student) ==
  { i \in 1 .. Len(db.submissions) :
      /\ db.submissions[i].assignment = assignment
      /\ db.submissions[i].student = student }

ReferencesOf(assignment, student) ==
  { k \in 1 .. Len(db.assignments[assignment].submissions) :
      db.assignments[assignment].submissions[k]
        \in SubmissionsOf(assignment, student) }

\* C25: the Submission collection never holds two submissions of one
\* student to one assignment, the assignment's list never holds two
\* references for one student, and of the submitAssignment requests of a
\* student that overlap on an assignment only one stores: an insert
\* happens only when the pair is absent, and a request is answered 201
\* only for the one submission of its pair
C25_AtMostOne ==
  \A a \in 1 .. Len(db.assignments) : \A s \in Students :
    /\ Cardinality(SubmissionsOf(a, s)) <= 1
    /\ Cardinality(ReferencesOf(a, s)) <= 1

C25_SubmissionsAfter(assignment, student) ==
  { i \in 1 .. Len(db'.submissions) :
      /\ db'.submissions[i].assignment = assignment
      /\ db'.submissions[i].student = student }

C25_OneSubmissionPerPair ==
  [][ /\ C25_AtMostOne'
      /\ \A r \in Slots :
           (reqs[r].pc = "create" /\ reqs'[r].pc = "save")
             => /\ SubmissionsOf(reqs[r].req.id, reqs[r].req.user) = {}
                /\ Len(db'.submissions) = Len(db.submissions) + 1
      /\ Len(db'.submissions) # Len(db.submissions)
           => \E r \in Slots : reqs[r].pc = "create" /\ reqs'[r].pc = "save"
      /\ (lastResp' # NoResp /\ lastResp'.op = "submitAssignment"
          /\ lastResp'.status = 201)
           => \E r \in Slots :
                /\ reqs[r].pc = "save"
                /\ reqs'[r].pc = "idle"
                /\ C25_SubmissionsAfter(reqs[r].req.id, reqs[r].req.user)
                     = {reqs[r].created} ]_vars

\* two submitAssignment of a student found no submission; one has stored
\* its own, the insert of the other has just been rejected
C25_SecondInsertRejected ==
  /\ lastResp # NoResp
  /\ lastResp.op = "submitAssignment"
  /\ lastResp.status = 500
  /\ ValidFileType(lastResp.req.file)
  /\ Cardinality(SubmissionsOf(lastResp.req.id, lastResp.req.user)) = 1

\* the assignment a submission belongs to
AssignmentOf(submission) == db.assignments[submission.assignment]

\* C29: every graded submission has marks <= maxMarks of the assignment it
\* belongs to, and a grading request with marks above that maxMarks is
\* answered 400
C29_MarksWithinMaxMarks ==
  /\ \A i \in 1 .. Len(db.submissions) :
       (db.submissions[i].status = "graded"
        /\ db.submissions[i].marks # Undefined)
         => db.submissions[i].marks[1] <= AssignmentOf(db.submissions[i]).maxMarks
  /\ (/\ lastResp # NoResp
      /\ lastResp.op \in {"gradeSubmission", "gradeAssignment"}
      /\ lastResp.req.sid \in 1 .. Len(db.submissions)
      /\ lastResp.status \notin {403, 404}
      /\ lastResp.req.marks # Undefined
      /\ lastResp.req.marks[1]
           > AssignmentOf(db.submissions[lastResp.req.sid]).maxMarks)
       => lastResp.status = 400

\* C30: a submission is graded only by the teacher of the assignment it
\* belongs to, whichever route and ids the request used
C30_GradedByOwner ==
  \A i \in 1 .. Len(db.submissions) :
    db.submissions[i].status = "graded"
      => db.submissions[i].gradedBy
           = Some(AssignmentOf(db.submissions[i]).teacher)

====
